---- MODULE Spec2Model ----
(***************************************************************************)
(* Admit-Guide (main.py): the admission predictor and the program finder.  *)
(*                                                                         *)
(* Text is modelled as sequences of one-character strings, so that         *)
(* str.strip, str.lower and the vectorizer's tokenizer are computed.       *)
(* Scores are scaled integers: IELTS and CGPA in tenths (3.4 is 34).       *)
(* Real numbers of the vector space are fixed-point integers.              *)
(***************************************************************************)
EXTENDS Integers, Sequences, FiniteSets, TLC

(* ------------------------------ bounds -------------------------------- *)

\* Requests served in one run (caps the request counters).
MaxRequests == 2

\* Spaces put around a typed name, feedback or search text.
MaxPad == 1

\* Repetitions of the first word of a two-word search text.
MaxRepeat == 5

\* Requests in flight at once in the concurrent specification.
NumWorkers == 2

(* --------------------------- Python text ------------------------------ *)

UpperChars ==
    << "A", "B", "C", "D", "E", "F", "G", "H", "I", "J", "K", "L", "M",
       "N", "O", "P", "Q", "R", "S", "T", "U", "V", "W", "X", "Y", "Z" >>

LowerChars ==
    << "a", "b", "c", "d", "e", "f", "g", "h", "i", "j", "k", "l", "m",
       "n", "o", "p", "q", "r", "s", "t", "u", "v", "w", "x", "y", "z" >>

DigitChars == { "0", "1", "2", "3", "4", "5", "6", "7", "8", "9" }

Range(f) == { f[i] : i \in DOMAIN f }

\* str.isspace of one character
IsSpace(c) == c \in { " ", "\t", "\n", "\r" }

\* the regular expression class \w
IsWordChar(c) ==
    c \in Range(UpperChars) \cup Range(LowerChars) \cup DigitChars \cup { "_" }

LowerChar(c) ==
    IF c \in Range(UpperChars)
    THEN LowerChars[CHOOSE i \in DOMAIN UpperChars : UpperChars[i] = c]
    ELSE c

UpperChar(c) ==
    IF c \in Range(LowerChars)
    THEN UpperChars[CHOOSE i \in DOMAIN LowerChars : LowerChars[i] = c]
    ELSE c

\* str.lower
StrLower(s) == [i \in 1..Len(s) |-> LowerChar(s[i])]

RECURSIVE LStrip(_)
LStrip(s) ==
    IF s # << >> /\ IsSpace(Head(s)) THEN LStrip(Tail(s)) ELSE s

RECURSIVE RStrip(_)
RStrip(s) ==
    IF s # << >> /\ IsSpace(s[Len(s)])
    THEN RStrip(SubSeq(s, 1, Len(s) - 1))
    ELSE s

\* str.strip
StrStrip(s) == RStrip(LStrip(s))

(* Python values that reach the handlers: a str, a float or None.          *)
PyStr(s) == [type |-> "str", val |-> s]

PyNum(n) == [type |-> "float", val |-> << n >>]

PyNone == [type |-> "NoneType", val |-> << >>]

IsStr(v) == v.type = "str"

IsNum(v) == v.type = "float"

NumOf(v) == v.val[1]

\* Python truthiness of a str, a float or None
Truthy(v) ==
    CASE v.type = "str" -> v.val # << >>
      [] v.type = "float" -> NumOf(v) # 0
      [] OTHER -> FALSE

(* ------------------------- fixed-point reals -------------------------- *)

\* weights (idf, tf-idf, norms) carry three decimals
Milli == 10 * 100

\* unit vectors and cosines carry four decimals
Unit == 100 * 100

RECURSIVE ISqrtIn(_, _, _)
ISqrtIn(n, lo, hi) ==
    IF lo >= hi THEN lo
    ELSE LET mid == (lo + hi + 1) \div 2
         IN  IF mid * mid <= n THEN ISqrtIn(n, mid, hi)
             ELSE ISqrtIn(n, lo, mid - 1)

\* floor of the square root
ISqrt(n) == ISqrtIn(n, 0, 46340)

RECURSIVE LnSeries(_, _, _, _)
LnSeries(z, term, k, acc) ==
    IF term = 0 THEN acc
    ELSE LnSeries(z, (((term * z) \div Unit) * z) \div Unit, k + 2,
                  acc + term \div k)

\* ln(a / b) in Unit-ths for a >= b > 0: 2 * atanh((a - b) / (a + b))
LnUnit(a, b) ==
    LET z == ((a - b) * Unit) \div (a + b)
    IN  2 * LnSeries(z, z, 1, 0)

(* ------------------------------ catalog ------------------------------- *)

\* One dataset the server is started on (university_admission_requirements).
\* IELTS and CGPA are in tenths.
Dataset ==
    << [University |-> << "M", "I", "T" >>, Location |-> << "M", "A" >>,
        Area |-> << "A", "I" >>,
        GRE |-> 330, TOEFL |-> 110, IELTS |-> 80, CGPA |-> 38,
        AcceptanceRate |-> 7, Rating |-> 5],
       [University |-> << "C", "M", "U" >>, Location |-> << "P", "A" >>,
        Area |-> << "A", "I" >>,
        GRE |-> 325, TOEFL |-> 100, IELTS |-> 70, CGPA |-> 36,
        AcceptanceRate |-> 15, Rating |-> 5],
       [University |-> << "U", "C", "L", "A" >>, Location |-> << "C", "A" >>,
        Area |-> << "M", "L" >>,
        GRE |-> 320, TOEFL |-> 100, IELTS |-> 70, CGPA |-> 34,
        AcceptanceRate |-> 30, Rating |-> 3] >>

\* bool.astype(int)
AsInt(b) == IF b THEN 1 ELSE 0

\* a mutation of AdmissionLabel: strict comparisons
AdmissionLabelStrict(row) ==
    AsInt(AsInt(row.CGPA < 34) + AsInt(row.GRE < 320)
          + AsInt(row.TOEFL < 100) + AsInt(row.Rating < 3) >= 2)

\* df["Admission_Label"] of one row
AdmissionLabel(row) ==
    AsInt(AsInt(row.CGPA <= 34) + AsInt(row.GRE <= 320)
          + AsInt(row.TOEFL <= 100) + AsInt(row.Rating <= 3) >= 2)

SepArea == << " ", "|", " ", "P", "r", "o", "g", "r", "a", "m", " ",
              "A", "r", "e", "a", ":", " " >>

SepLocation == << " ", "|", " ", "L", "o", "c", "a", "t", "i", "o", "n",
                  ":", " " >>

\* df["Program_Description"] of one row
ProgramDescription(row) ==
    row.University \o SepArea \o row.Area \o SepLocation \o row.Location

\* the data frame after the label and the description columns are added
BuildFrame(data) ==
    [i \in DOMAIN data |->
        [University |-> data[i].University, Location |-> data[i].Location,
         Area |-> data[i].Area, GRE |-> data[i].GRE, TOEFL |-> data[i].TOEFL,
         IELTS |-> data[i].IELTS, CGPA |-> data[i].CGPA,
         AcceptanceRate |-> data[i].AcceptanceRate, Rating |-> data[i].Rating,
         Admission_Label |-> AdmissionLabel(data[i]),
         Program_Description |-> ProgramDescription(data[i])]]

(* -------------------------- difficulty model -------------------------- *)

\* RandomForestClassifier(n_estimators=200)
n_estimators == 200

\* classes_ of the fitted classifier: the labels seen in training, sorted
ClassesOf(frame) ==
    LET seen == { frame[i].Admission_Label : i \in DOMAIN frame }
    IN  IF seen = { 0, 1 } THEN << 0, 1 >>
        ELSE IF seen = { 0 } THEN << 0 >>
        ELSE IF seen = { 1 } THEN << 1 >>
        ELSE << >>

\* Trees voting for label 1 on a training row. Every tree is grown to pure
\* leaves, so it votes 0 or 1; how many vote 1 is decided by the bootstrap
\* samples. A few outcomes are kept, the majority on the row's own label.
VoteLevels(label) == IF label = 1 THEN { 133 } ELSE { 0, 67 }

\* the pipelines that pipeline.fit(X, y) may leave behind
FittedPipelines(frame) ==
    { [classes |-> ClassesOf(frame), votes |-> v] :
        v \in { w \in [DOMAIN frame -> VoteLevels(0) \cup VoteLevels(1)] :
                  \A i \in DOMAIN frame :
                      w[i] \in VoteLevels(frame[i].Admission_Label) } }

\* pipeline.predict_proba(uni_features)[0]: one probability per class of
\* classes_, in 1/n_estimators
PredictProba(pipe, i) ==
    [c \in DOMAIN pipe.classes |->
        IF Len(pipe.classes) = 1 THEN n_estimators
        ELSE IF pipe.classes[c] = 1 THEN pipe.votes[i]
        ELSE n_estimators - pipe.votes[i]]

(* --------------------------- similarity index ------------------------- *)

\* the words of sklearn's English stop list that the texts below can hold
StopWords ==
    { << "t", "h", "e" >>, << "a", "n", "d" >>, << "o", "f" >>,
      << "i", "n" >>, << "f", "o", "r" >>, << "t", "o" >> }

\* the maximal runs of two or more word characters: token_pattern \b\w\w+\b
RECURSIVE WordRuns(_, _)
WordRuns(s, cur) ==
    LET done == IF Len(cur) >= 2 THEN << cur >> ELSE << >>
    IN  IF s = << >> THEN done
        ELSE IF IsWordChar(Head(s)) THEN WordRuns(Tail(s), Append(cur, Head(s)))
        ELSE done \o WordRuns(Tail(s), << >>)

\* the vectorizer's analyzer: lowercase, tokenize, drop the stop words
Analyze(s) ==
    LET NotStop(t) == t \notin StopWords
    IN  SelectSeq(WordRuns(StrLower(s), << >>), NotStop)

\* occurrences of token t in a token list
TermCount(t, toks) == Cardinality({ i \in DOMAIN toks : toks[i] = t })

RECURSIVE SumOver(_, _)
SumOver(f, S) ==
    IF S = { } THEN 0
    ELSE LET x == CHOOSE y \in S : TRUE
         IN  f[x] + SumOver(f, S \ { x })

\* sklearn.preprocessing.normalize(norm="l2"): a zero row stays zero
Normalize(v) ==
    LET n == ISqrt(SumOver([t \in DOMAIN v |-> v[t] * v[t]], DOMAIN v))
    IN  IF n = 0 THEN v ELSE [t \in DOMAIN v |-> (v[t] * Unit) \div n]

\* smooth idf: ln((1 + n) / (1 + df)) + 1, in Milli
Idf(n, docfreq) == (LnUnit(1 + n, 1 + docfreq) * Milli) \div Unit + Milli

\* TfidfVectorizer.transform of one text: term count times idf, l2-normalized;
\* a term that is not in the vocabulary is ignored
Transform(index, text) ==
    LET toks == Analyze(text)
    IN  Normalize([t \in index.vocabulary |-> TermCount(t, toks) * index.idf[t]])

\* TfidfVectorizer.fit_transform over the descriptions
FitTransform(frame) ==
    LET docs  == [i \in DOMAIN frame |-> Analyze(frame[i].Program_Description)]
        vocab == UNION { Range(docs[i]) : i \in DOMAIN docs }
        dfreq == [t \in vocab |->
                    Cardinality({ i \in DOMAIN docs : t \in Range(docs[i]) })]
        index == [vocabulary |-> vocab,
                  idf |-> [t \in vocab |-> Idf(Len(frame), dfreq[t])]]
    IN  [vocabulary |-> vocab, idf |-> index.idf,
         matrix |-> [i \in DOMAIN frame |->
                        Transform(index, frame[i].Program_Description)]]

\* cosine_similarity(query_vec, tfidf_matrix)[0], in Unit-ths
CosineSimilarity(qv, matrix) ==
    LET q == Normalize(qv)
    IN  [i \in DOMAIN matrix |->
            LET d == Normalize(matrix[i])
            IN  SumOver([t \in DOMAIN q |-> q[t] * d[t]], DOMAIN q) \div Unit]

\* the relevance floor 0.05, in Unit-ths
SimilarityFloor == (5 * Unit) \div 100

(* ------------------------- admission predictor ------------------------ *)

\* a mutation of find_university_row: the typed name is not stripped
FindUniversityRowNoStrip(frame, university_name) ==
    IF ~IsStr(university_name) \/ StrStrip(university_name.val) = << >>
    THEN << >>
    ELSE LET mask == { i \in DOMAIN frame :
                         StrLower(frame[i].University)
                           = StrLower(university_name.val) }
         IN  IF mask # { }
             THEN << CHOOSE i \in mask : \A j \in mask : i <= j >>
             ELSE << >>

\* find_university_row: the first row whose lowercased name equals the
\* stripped, lowercased argument, as << index >>; << >> is None
find_university_row(frame, university_name) ==
    IF ~IsStr(university_name) \/ StrStrip(university_name.val) = << >>
    THEN << >>
    ELSE LET mask == { i \in DOMAIN frame :
                         StrLower(frame[i].University)
                           = StrLower(StrStrip(university_name.val)) }
         IN  IF mask # { }
             THEN << CHOOSE i \in mask : \A j \in mask : i <= j >>
             ELSE << >>

\* a mutation of MatchScore: strict comparisons
MatchScoreStrict(gre, toefl, ielts, cgpa, row) ==
    AsInt(NumOf(gre) > row.GRE) + AsInt(NumOf(toefl) > row.TOEFL)
    + AsInt(NumOf(ielts) > row.IELTS) + AsInt(NumOf(cgpa) > row.CGPA)

\* match_score, for four numbers
MatchScore(gre, toefl, ielts, cgpa, row) ==
    AsInt(NumOf(gre) >= row.GRE) + AsInt(NumOf(toefl) >= row.TOEFL)
    + AsInt(NumOf(ielts) >= row.IELTS) + AsInt(NumOf(cgpa) >= row.CGPA)

\* num / den rounded to the nearest integer, halves to the even one
RoundHalfEven(num, den) ==
    LET q == num \div den
        r == num % den
    IN  IF 2 * r > den \/ (2 * r = den /\ q % 2 = 1) THEN q + 1 ELSE q

\* a mutation of FinalProb: match_score // 4
FinalProbFloorDiv(match_score, votes) ==
    RoundHalfEven(
        ((match_score \div 4) * 4 * 7 * n_estimators + votes * 3 * 4) * 100 * 100,
        4 * 10 * n_estimators)

\* round(((match_score / 4) * 0.7 + difficulty_prob * 0.3) * 100, 2) in
\* hundredths of a percent, for difficulty_prob = votes / n_estimators
FinalProb(match_score, votes) ==
    RoundHalfEven(
        (match_score * 7 * n_estimators + votes * 3 * 4) * 100 * 100,
        4 * 10 * n_estimators)

\* round(difficulty_prob * 100, 2) in hundredths of a percent
DifficultyPct(votes) == RoundHalfEven(votes * 100 * 100, n_estimators)

\* a mutation of DifficultyProb: the column of the first class
DifficultyProbFirstColumn(pipe, i) ==
    LET proba == PredictProba(pipe, i)
    IN  IF Len(proba) >= 1 THEN << proba[1] >> ELSE << >>

\* pipeline.predict_proba(uni_features)[0][1] as << votes >>; << >> when
\* the index is out of range (IndexError)
DifficultyProb(pipe, i) ==
    LET proba == PredictProba(pipe, i)
    IN  IF Len(proba) >= 2 THEN << proba[2] >> ELSE << >>

\* the body of the try block up to final_prob = round(final_prob, 2)
Evaluate(r, frame, pipe) ==
    LET uni_row == find_university_row(frame, r.university)
        none == [outcome |-> "NotFound", raised |-> "", row |-> << >>,
                 match_score |-> << >>, votes |-> << >>, final_prob |-> << >>]
    IN  IF uni_row = << >> THEN none
        ELSE IF ~(IsNum(r.gre) /\ IsNum(r.toefl) /\ IsNum(r.ielts) /\ IsNum(r.cgpa))
        THEN [none EXCEPT !.outcome = "Raise", !.raised = "TypeError"]
        ELSE LET row == frame[uni_row[1]]
                 m == MatchScore(r.gre, r.toefl, r.ielts, r.cgpa, row)
                 d == DifficultyProb(pipe, uni_row[1])
             IN  IF d = << >>
                 THEN [none EXCEPT !.outcome = "Raise", !.raised = "IndexError"]
                 ELSE [outcome |-> "Scored", raised |-> "", row |-> uni_row,
                       match_score |-> << m >>, votes |-> d,
                       final_prob |-> << FinalProb(m, d[1]) >>]

\* isinstance(feedback, str) and feedback.strip()
HasFeedback(feedback) == IsStr(feedback) /\ StrStrip(feedback.val) # << >>

\* the line f.write puts into the file
FeedbackLine(feedback) == StrStrip(feedback.val) \o << "\n" >>

NoResult ==
    [status |-> "none", raised |-> "", row |-> << >>, final_prob |-> << >>,
     match_score |-> << >>, difficulty_pct |-> << >>, ranked_list |-> << >>]

\* what the handler returns: the evaluation html, the not-found html, or
\* the error html of the except clause
PredictResult(ev, write_failed) ==
    IF ev.outcome = "NotFound" THEN [NoResult EXCEPT !.status = "NotFound"]
    ELSE IF ev.outcome = "Raise"
    THEN [NoResult EXCEPT !.status = "Error", !.raised = ev.raised]
    ELSE IF write_failed
    THEN [NoResult EXCEPT !.status = "Error", !.raised = "OSError"]
    ELSE [NoResult EXCEPT !.status = "Found", !.row = ev.row,
                          !.final_prob = ev.final_prob,
                          !.match_score = ev.match_score,
                          !.difficulty_pct = << DifficultyPct(ev.votes[1]) >>]

(* --------------------------- program finder --------------------------- *)

\* a mutation of AboveFloor: every row with a positive similarity is kept
AbovePositive(sims) == { i \in DOMAIN sims : sims[i] > 0 }

\* results[results["Similarity"] > 0.05]: the rows kept, as a set of indices
AboveFloor(sims) == { i \in DOMAIN sims : sims[i] > SimilarityFloor }

\* results.sort_values(by="Similarity", ascending=False) with pandas'
\* default kind="quicksort", which is not stable: every ordering of the
\* kept rows by non-increasing similarity is a possible outcome
SortValues(kept, sims) ==
    { p \in [1..Cardinality(kept) -> kept] :
        /\ \A a, b \in DOMAIN p : a # b => p[a] # p[b]
        /\ \A a, b \in DOMAIN p : a < b => sims[p[a]] >= sims[p[b]] }

\* cosine similarities of a search text against every description
Similarities(index, text) ==
    CosineSimilarity(Transform(index, StrStrip(text)), index.matrix)

\* the results search_programs may return for interest_text
SearchResults(index, interest_text) ==
    IF ~Truthy(interest_text)
    THEN { [NoResult EXCEPT !.status = "Empty"] }
    ELSE IF ~IsStr(interest_text)
    THEN { [NoResult EXCEPT !.status = "Error", !.raised = "AttributeError"] }
    ELSE IF StrStrip(interest_text.val) = << >>
    THEN { [NoResult EXCEPT !.status = "Empty"] }
    ELSE LET sims == Similarities(index, interest_text.val)
             kept == AboveFloor(sims)
         IN  IF kept = { }
             THEN { [NoResult EXCEPT !.status = "NoMatches"] }
             ELSE { [NoResult EXCEPT !.status = "Results", !.ranked_list = p] :
                      p \in SortValues(kept, sims) }

(* ------------------------------- inputs ------------------------------- *)

Spaces(n) == [i \in 1..n |-> " "]

\* s with n spaces typed before and after it
Pad(s, n) == Spaces(n) \o s \o Spaces(n)

\* str.capitalize
Capitalize(s) ==
    [i \in 1..Len(s) |-> IF i = 1 THEN UpperChar(s[i]) ELSE LowerChar(s[i])]

\* names typed into the University Name box, and two values that are no str
TypedNames ==
    LET listed == { Dataset[i].University : i \in DOMAIN Dataset }
        cases == UNION { { b, StrLower(b), Capitalize(b) } : b \in listed }
                   \cup { << "N", "Y", "U" >>, << "M", "I" >> }
    IN  { PyStr(Pad(c, n)) : c \in cases, n \in 0..MaxPad }
          \cup { PyStr(<< >>), PyStr(<< " " >>), PyNone, PyNum(7) }

\* contents of the Feedback box
TypedFeedback ==
    { PyStr(Pad(<< "o", "k" >>, n)) : n \in 0..MaxPad }
      \cup { PyStr(<< >>), PyStr(<< " " >>), PyNone }

\* the four Number boxes: a number each, or None for a box left empty
TypedScores ==
    { << PyNum(330), PyNum(110), PyNum(80), PyNum(38) >>,
      << PyNum(325), PyNum(100), PyNum(80), PyNum(34) >>,
      << PyNum(320), PyNum(100), PyNum(70), PyNum(34) >>,
      << PyNum(310), PyNum(90), PyNum(65), PyNum(30) >>,
      << PyNone, PyNum(110), PyNum(80), PyNum(38) >> }

RECURSIVE Repeat(_, _)
Repeat(w, n) == IF n = 0 THEN << >> ELSE w \o << " " >> \o Repeat(w, n - 1)

QueryWords ==
    { << "A", "I" >>, << "m", "i", "t" >>, << "t", "h", "e" >>,
      << "p", "r", "o", "g", "r", "a", "m" >>, << "z", "z" >> }

\* contents of the interests box, and two values that are no str
TypedInterests ==
    { PyStr(Pad(Repeat(w1, n) \o w2, k)) :
        w1 \in QueryWords, w2 \in QueryWords \cup { << >> },
        n \in { 0, MaxRepeat }, k \in 0..MaxPad }
      \cup { PyNone, PyNum(7) }

NoReq ==
    [op |-> "none", gre |-> PyNone, toefl |-> PyNone, ielts |-> PyNone,
     cgpa |-> PyNone, university |-> PyNone, feedback |-> PyNone,
     interest_text |-> PyNone]

PredictRequests ==
    { [NoReq EXCEPT !.op = "predict", !.gre = sc[1], !.toefl = sc[2],
                    !.ielts = sc[3], !.cgpa = sc[4], !.university = u,
                    !.feedback = f] :
        sc \in TypedScores, u \in TypedNames, f \in TypedFeedback }

SearchRequests ==
    { [NoReq EXCEPT !.op = "search", !.interest_text = t] :
        t \in TypedInterests }

(* -------------------------------- state ------------------------------- *)

VARIABLES
    df,              \* the data frame, with Admission_Label and Program_Description
    pipeline,        \* the fitted preprocessing and random forest
    tfidf,           \* tfidf_vectorizer (vocabulary, idf) and tfidf_matrix
    feedback_log,    \* the characters of feedback_log.txt
    REQUEST_COUNT,   \* admitguide_requests_total, by endpoint
    FEEDBACK_COUNT,  \* admitguide_feedback_total
    req,             \* the click being served, one at a time
    result,          \* what its handler returned
    workers,         \* the calls in flight when clicks are served concurrently
    fn_in,           \* argument of a function applied on its own
    fn_out           \* its value, << >> before it is applied

vars ==
    << df, pipeline, tfidf, feedback_log, REQUEST_COUNT, FEEDBACK_COUNT,
       req, result, workers, fn_in, fn_out >>

\* what is built once at start-up and only read afterwards
shared == << df, pipeline, tfidf >>

IdleWorker ==
    [pc |-> "idle", req |-> NoReq, ev |-> << >>, pos |-> 0, buf |-> << >>,
     result |-> NoResult]

\* module level of main.py: the state when the server starts to serve
Startup ==
    /\ df = BuildFrame(Dataset)
    /\ pipeline \in FittedPipelines(BuildFrame(Dataset))
    /\ tfidf = FitTransform(BuildFrame(Dataset))
    /\ feedback_log = << >>
    /\ REQUEST_COUNT = [admission_predict |-> 0, program_search |-> 0]
    /\ FEEDBACK_COUNT = 0
    /\ req = NoReq
    /\ result = NoResult
    /\ workers = [w \in 1..NumWorkers |-> IdleWorker]

Init ==
    /\ Startup
    /\ fn_in = << >>
    /\ fn_out = << >>

\* a mutation of AppendWrite: the file is not opened in append mode, the
\* data goes to the offset the stream had when it was opened
WriteAtOffset(file, pos, data) ==
    SubSeq(file, 1, pos) \o data \o SubSeq(file, pos + Len(data) + 1, Len(file))

\* the write of a stream opened with mode "a": the data goes to the end of
\* the file in one piece, wherever the stream stood when it was opened
AppendWrite(file, pos, data) == file \o data

RequestsServed ==
    REQUEST_COUNT.admission_predict + REQUEST_COUNT.program_search

\* Predict or Search is clicked: gradio collects the inputs of the call
Click ==
    /\ req = NoReq
    /\ RequestsServed < MaxRequests
    /\ \E r \in PredictRequests \cup SearchRequests : req' = r
    /\ UNCHANGED << shared, feedback_log, REQUEST_COUNT, FEEDBACK_COUNT,
                    result, workers, fn_in, fn_out >>

\* a mutation of PredictWrites: feedback is logged whatever the lookup gave
PredictWritesAlways(r, ev) == HasFeedback(r.feedback)

\* whether the call reaches the write of the feedback line
PredictWrites(r, ev) == ev.outcome = "Scored" /\ HasFeedback(r.feedback)

\* a mutation of SharedAfter: a failed request drops the fitted pipeline
SharedAfterErrorReset(res) ==
    IF res.status = "Error"
    THEN [df |-> df, tfidf |-> tfidf,
          pipeline |-> [pipeline EXCEPT !.votes = [i \in DOMAIN df |-> 0]]]
    ELSE [df |-> df, pipeline |-> pipeline, tfidf |-> tfidf]

\* df, pipeline and tfidf after a handler returned res: no handler assigns them
SharedAfter(res) == [df |-> df, pipeline |-> pipeline, tfidf |-> tfidf]

\* predict_admission_student(gre, toefl, ielts, cgpa, university, feedback);
\* open() may fail (disk_ok = FALSE), which the except clause catches
predict_admission_student ==
    /\ req.op = "predict"
    /\ result = NoResult
    /\ \E disk_ok \in BOOLEAN :
         LET ev == Evaluate(req, df, pipeline)
             writes == PredictWrites(req, ev)
             res == PredictResult(ev, writes /\ ~disk_ok)
         IN  /\ REQUEST_COUNT' =
                  [REQUEST_COUNT EXCEPT !.admission_predict = @ + 1]
             /\ IF writes /\ disk_ok
                THEN /\ feedback_log' =
                          AppendWrite(feedback_log, Len(feedback_log),
                                      FeedbackLine(req.feedback))
                     /\ FEEDBACK_COUNT' = FEEDBACK_COUNT + 1
                ELSE UNCHANGED << feedback_log, FEEDBACK_COUNT >>
             /\ result' = res
             /\ df' = SharedAfter(res).df
             /\ pipeline' = SharedAfter(res).pipeline
             /\ tfidf' = SharedAfter(res).tfidf
    /\ UNCHANGED << req, workers, fn_in, fn_out >>

\* search_programs(interest_text)
search_programs ==
    /\ req.op = "search"
    /\ result = NoResult
    /\ REQUEST_COUNT' = [REQUEST_COUNT EXCEPT !.program_search = @ + 1]
    /\ \E res \in SearchResults(tfidf, req.interest_text) :
         /\ result' = res
         /\ df' = SharedAfter(res).df
         /\ pipeline' = SharedAfter(res).pipeline
         /\ tfidf' = SharedAfter(res).tfidf
    /\ UNCHANGED << feedback_log, FEEDBACK_COUNT, req, workers, fn_in, fn_out >>

\* gradio puts the returned html into the output component
Render ==
    /\ result # NoResult
    /\ req' = NoReq
    /\ result' = NoResult
    /\ UNCHANGED << shared, feedback_log, REQUEST_COUNT, FEEDBACK_COUNT,
                    workers, fn_in, fn_out >>

Next == Click \/ predict_admission_student \/ search_programs \/ Render

Spec == Init /\ [][Next]_vars

(* ------------------- clicks served concurrently ----------------------- *)

\* the predict clicks of the concurrent runs
ConcRequests ==
    { [NoReq EXCEPT !.op = "predict", !.gre = PyNum(330), !.toefl = PyNum(110),
                    !.ielts = PyNum(80), !.cgpa = PyNum(38),
                    !.university = PyStr(u), !.feedback = f] :
        u \in { << "m", "i", "t" >>, << "n", "y", "u" >> },
        f \in { PyNone, PyStr(<< " ", "o", "k", " " >>),
                PyStr(<< "l", "a", "t", "e" >>) } }

\* calls entered so far, and calls collected but not yet entered
CallsTaken ==
    REQUEST_COUNT.admission_predict
      + Cardinality({ w \in DOMAIN workers : workers[w].pc = "called" })

\* a worker thread picks up a Predict click
CClick(w) ==
    /\ workers[w].pc = "idle"
    /\ CallsTaken < MaxRequests
    /\ \E r \in ConcRequests :
         workers' = [workers EXCEPT ![w] = [IdleWorker EXCEPT !.pc = "called",
                                                              !.req = r]]
    /\ UNCHANGED << shared, feedback_log, REQUEST_COUNT, FEEDBACK_COUNT,
                    req, result, fn_in, fn_out >>

\* predict_admission_student up to final_prob and the test of the feedback
CEvaluate(w) ==
    /\ workers[w].pc = "called"
    /\ REQUEST_COUNT' = [REQUEST_COUNT EXCEPT !.admission_predict = @ + 1]
    /\ LET ev == Evaluate(workers[w].req, df, pipeline)
       IN  workers' = [workers EXCEPT ![w] =
             IF ev.outcome # "Scored"
             THEN [@ EXCEPT !.pc = "returned", !.result = PredictResult(ev, FALSE)]
             ELSE IF PredictWrites(workers[w].req, ev)
             THEN [@ EXCEPT !.pc = "open", !.ev = << ev >>]
             ELSE [@ EXCEPT !.pc = "render", !.ev = << ev >>]]
    /\ UNCHANGED << shared, feedback_log, FEEDBACK_COUNT, req, result,
                    fn_in, fn_out >>

\* open(..., "a"): the stream stands at the end of the file, or open fails
COpen(w) ==
    /\ workers[w].pc = "open"
    /\ \E disk_ok \in BOOLEAN :
         workers' = [workers EXCEPT ![w] =
           IF disk_ok
           THEN [@ EXCEPT !.pc = "write", !.pos = Len(feedback_log)]
           ELSE [@ EXCEPT !.pc = "returned",
                          !.result = PredictResult(workers[w].ev[1], TRUE)]]
    /\ UNCHANGED << shared, feedback_log, REQUEST_COUNT, FEEDBACK_COUNT,
                    req, result, fn_in, fn_out >>

\* f.write(feedback.strip() + "\n"): the line goes to the stream's buffer
CWrite(w) ==
    /\ workers[w].pc = "write"
    /\ workers' = [workers EXCEPT ![w] =
         [@ EXCEPT !.pc = "close", !.buf = FeedbackLine(workers[w].req.feedback)]]
    /\ UNCHANGED << shared, feedback_log, REQUEST_COUNT, FEEDBACK_COUNT,
                    req, result, fn_in, fn_out >>

\* leaving the with block closes the stream: the buffer is written out
CClose(w) ==
    /\ workers[w].pc = "close"
    /\ feedback_log' = AppendWrite(feedback_log, workers[w].pos, workers[w].buf)
    /\ workers' = [workers EXCEPT ![w] = [@ EXCEPT !.pc = "count", !.buf = << >>]]
    /\ UNCHANGED << shared, REQUEST_COUNT, FEEDBACK_COUNT, req, result,
                    fn_in, fn_out >>

\* FEEDBACK_COUNT.inc()
CCount(w) ==
    /\ workers[w].pc = "count"
    /\ FEEDBACK_COUNT' = FEEDBACK_COUNT + 1
    /\ workers' = [workers EXCEPT ![w] = [@ EXCEPT !.pc = "render"]]
    /\ UNCHANGED << shared, feedback_log, REQUEST_COUNT, req, result,
                    fn_in, fn_out >>

\* the html is formatted and returned
CReturn(w) ==
    /\ workers[w].pc = "render"
    /\ workers' = [workers EXCEPT ![w] =
         [@ EXCEPT !.pc = "returned",
                    !.result = PredictResult(workers[w].ev[1], FALSE)]]
    /\ UNCHANGED << shared, feedback_log, REQUEST_COUNT, FEEDBACK_COUNT,
                    req, result, fn_in, fn_out >>

\* gradio puts the returned html into the output component
CRender(w) ==
    /\ workers[w].pc = "returned"
    /\ workers' = [workers EXCEPT ![w] = IdleWorker]
    /\ UNCHANGED << shared, feedback_log, REQUEST_COUNT, FEEDBACK_COUNT,
                    req, result, fn_in, fn_out >>

Clicked == \E w \in DOMAIN workers : CClick(w)

Evaluated == \E w \in DOMAIN workers : CEvaluate(w)

Opened == \E w \in DOMAIN workers : COpen(w)

Written == \E w \in DOMAIN workers : CWrite(w)

Closed == \E w \in DOMAIN workers : CClose(w)

Counted == \E w \in DOMAIN workers : CCount(w)

Returned == \E w \in DOMAIN workers : CReturn(w)

Rendered == \E w \in DOMAIN workers : CRender(w)

NextConc ==
    \/ Clicked
    \/ Evaluated
    \/ Opened
    \/ Written
    \/ Closed
    \/ Counted
    \/ Returned
    \/ Rendered

SpecConc == Init /\ [][NextConc]_vars

(* ------------------- functions applied on their own ------------------- *)

\* rows of a catalog around the four thresholds of the label rule
LabelInputs ==
    { [CGPA |-> c, GRE |-> g, TOEFL |-> t, Rating |-> r, IELTS |-> i,
       AcceptanceRate |-> a] :
        c \in { 33, 34, 35 }, g \in { 319, 320, 321 }, t \in { 99, 100, 101 },
        r \in { 2, 3, 4 }, i \in { 65, 80 }, a \in { 10, 60 } }

InitLabel ==
    /\ Startup
    /\ fn_in \in LabelInputs
    /\ fn_out = << >>

\* the label column is computed for the row
DeriveLabel ==
    /\ fn_out = << >>
    /\ fn_out' = << AdmissionLabel(fn_in) >>
    /\ UNCHANGED << shared, feedback_log, REQUEST_COUNT, FEEDBACK_COUNT,
                    req, result, workers, fn_in >>

SpecLabel == InitLabel /\ [][DeriveLabel]_vars

\* student scores around the thresholds of the catalog, and a row of it
MatchInputs ==
    { [gre |-> PyNum(g), toefl |-> PyNum(t), ielts |-> PyNum(i),
       cgpa |-> PyNum(c), row |-> k] :
        g \in { 319, 320, 330 }, t \in { 99, 100, 110 }, i \in { 65, 70, 80 },
        c \in { 33, 34, 38 }, k \in DOMAIN Dataset }

InitMatch ==
    /\ Startup
    /\ fn_in \in MatchInputs
    /\ fn_out = << >>

\* match_score is computed for the student and the row
ApplyMatch ==
    /\ fn_out = << >>
    /\ fn_out' = << MatchScore(fn_in.gre, fn_in.toefl, fn_in.ielts, fn_in.cgpa,
                               df[fn_in.row]) >>
    /\ UNCHANGED << shared, feedback_log, REQUEST_COUNT, FEEDBACK_COUNT,
                    req, result, workers, fn_in >>

SpecMatch == InitMatch /\ [][ApplyMatch]_vars

\* every match count and every number of trees voting for label 1
ScoreInputs ==
    { [match_score |-> m, votes |-> v] : m \in 0..4, v \in 0..n_estimators }

InitScore ==
    /\ Startup
    /\ fn_in \in ScoreInputs
    /\ fn_out = << >>

\* final_prob and the difficulty percentage are computed
ApplyScore ==
    /\ fn_out = << >>
    /\ fn_out' = << [final_prob |-> FinalProb(fn_in.match_score, fn_in.votes),
                     difficulty_pct |-> DifficultyPct(fn_in.votes)] >>
    /\ UNCHANGED << shared, feedback_log, REQUEST_COUNT, FEEDBACK_COUNT,
                    req, result, workers, fn_in >>

SpecScore == InitScore /\ [][ApplyScore]_vars

(* ------------------------------- claims ------------------------------- *)

\* a handler has returned and its result is not yet rendered
Handled(op) == req.op = op /\ result # NoResult

\* the step of a handler, from the click to its return
HandlerStep(op) == req.op = op /\ result = NoResult /\ result' # NoResult

\* the characters a..b of s; empty when b < a
Slice(s, a, b) == [i \in 1..(b - a + 1) |-> s[a + i - 1]]

\* s without its surrounding whitespace: the characters a..b of s, where
\* only whitespace is outside a..b and neither s[a] nor s[b] is whitespace
Trimmed(s) ==
    LET cut == CHOOSE ab \in (1..Len(s) + 1) \X (0..Len(s)) :
                 /\ ab[1] <= ab[2] + 1
                 /\ \A i \in 1..Len(s) : (i < ab[1] \/ i > ab[2]) => IsSpace(s[i])
                 /\ ab[1] <= ab[2] => ~IsSpace(s[ab[1]]) /\ ~IsSpace(s[ab[2]])
                 /\ ab[1] > ab[2] => ab[1] = 1
    IN  Slice(s, cut[1], cut[2])

\* a and b are the same text when letter case is ignored
SameIgnoringCase(a, b) ==
    /\ Len(a) = Len(b)
    /\ \A i \in 1..Len(a) : UpperChar(a[i]) = UpperChar(b[i])

\* v is a str with a character that is not whitespace
NonBlank(v) == IsStr(v) /\ \E i \in 1..Len(v.val) : ~IsSpace(v.val[i])

\* the complete lines of a file, without their newlines
RECURSIVE LinesOf(_, _)
LinesOf(file, cur) ==
    IF file = << >> THEN << >>
    ELSE IF Head(file) = "\n" THEN << cur >> \o LinesOf(Tail(file), << >>)
    ELSE LinesOf(Tail(file), Append(cur, Head(file)))

\* the file is empty or ends with a newline
EndsWhole(file) == file = << >> \/ file[Len(file)] = "\n"

\* C1: for every match count m in 0..4 and every difficulty probability
\* d = votes / 200, final_prob is ((m/4)*0.7 + d*0.3)*100 rounded to the
\* nearest hundredth, it lies in [0, 100], and for m = 4 it is
\* 70 + 0.3 * difficulty percentage. Values are in hundredths of a percent.
C1_FinalProbability ==
    fn_out # << >> =>
        LET m == fn_in.match_score
            v == fn_in.votes
            f == fn_out[1].final_prob
            \* ((m/4)*0.7 + (v/200)*0.3)*100 = exact / 8000
            exact == (m * 1400 + v * 12) * 100
            gap == f * 8000 - exact * 100
        IN  /\ 2 * gap <= 8000 /\ 2 * gap >= -8000
            /\ f >= 0 /\ f <= 10000
            /\ m = 4 => 10 * f = 70000 + 3 * fn_out[1].difficulty_pct

C1_Witness ==
    /\ fn_out # << >>
    /\ fn_in.match_score = 4
    /\ fn_in.votes = 133
    /\ fn_out[1].final_prob = 8995
    /\ fn_out[1].difficulty_pct = 6650

\* the criteria of a row that four scores meet
CriteriaMet(x, row) ==
    { c \in { "gre", "toefl", "ielts", "cgpa" } :
        \/ c = "gre" /\ NumOf(x.gre) >= row.GRE
        \/ c = "toefl" /\ NumOf(x.toefl) >= row.TOEFL
        \/ c = "ielts" /\ NumOf(x.ielts) >= row.IELTS
        \/ c = "cgpa" /\ NumOf(x.cgpa) >= row.CGPA }

\* y is x with no score lowered
RaisedFrom(x, y) ==
    /\ y.row = x.row
    /\ NumOf(y.gre) >= NumOf(x.gre) /\ NumOf(y.toefl) >= NumOf(x.toefl)
    /\ NumOf(y.ielts) >= NumOf(x.ielts) /\ NumOf(y.cgpa) >= NumOf(x.cgpa)

\* C2: the match count is an integer in 0..4, it is the number of the four
\* criteria with student value >= required value (equality counts), and
\* raising student scores against the same row never lowers it.
C2_MatchCount ==
    fn_out # << >> =>
        /\ fn_out[1] \in 0..4
        /\ fn_out[1] = Cardinality(CriteriaMet(fn_in, df[fn_in.row]))
        /\ \A y \in MatchInputs :
             RaisedFrom(fn_in, y) =>
                 MatchScore(y.gre, y.toefl, y.ielts, y.cgpa, df[y.row]) >= fn_out[1]

C2_Witness ==
    /\ fn_out = << 4 >>
    /\ fn_in.row = 3
    /\ NumOf(fn_in.gre) = df[3].GRE /\ NumOf(fn_in.toefl) = df[3].TOEFL
    /\ NumOf(fn_in.ielts) = df[3].IELTS /\ NumOf(fn_in.cgpa) = df[3].CGPA

\* some catalog name equals the typed name, trimmed, ignoring letter case
NameInCatalog(u) ==
    /\ IsStr(u)
    /\ Trimmed(u.val) # << >>
    /\ \E i \in DOMAIN df : SameIgnoringCase(Trimmed(u.val), df[i].University)

\* the four scores of a request are numbers
NumericScores(r) == IsNum(r.gre) /\ IsNum(r.toefl) /\ IsNum(r.ielts) /\ IsNum(r.cgpa)

\* C3: the predictor answers NotFound, carrying no score, exactly when no
\* catalog name equals the typed name after trimming it and ignoring case
\* (empty, blank and non-string names included); with a StudentProfile of
\* four numbers and a writable log it answers Found exactly when one does.
C3_Lookup ==
    Handled("predict") =>
        /\ result.status = "NotFound" <=> ~NameInCatalog(req.university)
        /\ result.status = "NotFound" =>
             /\ result.final_prob = << >>
             /\ result.match_score = << >>
             /\ result.difficulty_pct = << >>
        /\ result.status = "Found" => NameInCatalog(req.university)
        /\ NumericScores(req) /\ result.raised # "OSError" =>
             (result.status = "Found" <=> NameInCatalog(req.university))
        /\ result.status = "Found" =>
             SameIgnoringCase(df[result.row[1]].University,
                              Trimmed(req.university.val))

C3_Witness ==
    /\ Handled("predict")
    /\ req.university = PyStr(<< " ", "M", "i", "t", " " >>)
    /\ result.status = "Found"
    /\ result.row = << 1 >>

\* C4: in the ranked list of search_programs, a university comes before
\* another only if its similarity is greater, or equal with the university
\* earlier in the catalog (a stable descending sort).
C4_StableRanking ==
    Handled("search") /\ result.status = "Results" =>
        LET sims == Similarities(tfidf, req.interest_text.val)
            p == result.ranked_list
        IN  \A a, b \in DOMAIN p :
                a < b => \/ sims[p[a]] > sims[p[b]]
                         \/ sims[p[a]] = sims[p[b]] /\ p[a] < p[b]

\* every character of a text is whitespace
AllSpace(t) == \A i \in DOMAIN t : IsSpace(t[i])

\* C5: a search text that is a str gets exactly one of three outcomes: Empty
\* when it is empty or whitespace only; NoMatches when it is not blank and
\* no university has similarity > 0.05; otherwise Results, listing once each
\* exactly the universities with similarity > 0.05, never an empty list.
C5_SearchOutcome ==
    Handled("search") /\ IsStr(req.interest_text) =>
        LET text == req.interest_text.val
            sims == Similarities(tfidf, text)
            above == { i \in DOMAIN df : 100 * sims[i] > 5 * Unit }
        IN  /\ result.status \in { "Empty", "NoMatches", "Results" }
            /\ result.status = "Empty" <=> AllSpace(text)
            /\ result.status = "NoMatches" <=> ~AllSpace(text) /\ above = { }
            /\ result.status = "Results" <=> ~AllSpace(text) /\ above # { }
            /\ result.status = "Results" =>
                 /\ Range(result.ranked_list) = above
                 /\ Len(result.ranked_list) = Cardinality(above)
                 /\ result.ranked_list # << >>
            /\ result.status # "Results" => result.ranked_list = << >>

\* Results that leave out a university whose similarity is positive but not
\* above the floor
C5_Witness ==
    /\ Handled("search")
    /\ result.status = "Results"
    /\ result.ranked_list = << 1 >>
    /\ \E i \in DOMAIN df :
         LET sims == Similarities(tfidf, req.interest_text.val)
         IN  sims[i] > 0 /\ 100 * sims[i] <= 5 * Unit

\* C6 as claimed: the difficulty percentage reported is the classifier's
\* probability of label 0 (the university is harder).
C6_ProbabilityOfLabelZero ==
    Handled("predict") /\ result.status = "Found" =>
        result.difficulty_pct[1] * n_estimators
          = (n_estimators - pipeline.votes[result.row[1]]) * 10000

\* C6, amended: the difficulty probability is in [0, 1] and is the
\* classifier's probability of label 1 (easier admission): the share of the
\* trees voting 1 for the university. It is reported as the difficulty
\* percentage and enters the final percentage with weight 0.3, beside the
\* match count with weight 0.7.
C6_ProbabilityOfLabelOne ==
    Handled("predict") /\ result.status = "Found" =>
        /\ result.difficulty_pct[1] * n_estimators
             = pipeline.votes[result.row[1]] * 10000
        /\ result.difficulty_pct[1] >= 0 /\ result.difficulty_pct[1] <= 10000
        /\ 10 * result.final_prob[1]
             = 7 * 2500 * result.match_score[1] + 3 * result.difficulty_pct[1]

C6_Witness ==
    /\ Handled("predict")
    /\ result.status = "Found"
    /\ pipeline.votes[result.row[1]] = 67
    /\ result.difficulty_pct = << 3350 >>
    /\ result.match_score = << 4 >>
    /\ result.final_prob = << 8005 >>

\* the lines that the feedback of the concurrent clicks can put in the log
ConcLines ==
    { Trimmed(r.feedback.val) : r \in { x \in ConcRequests : NonBlank(x.feedback) } }

\* workers whose stream is closed and whose submission is not yet counted
ClosedUncounted == { w \in DOMAIN workers : workers[w].pc = "count" }

\* C7: under every interleaving of predict calls, the log consists of whole
\* lines, each the trimmed feedback of a call, one for every call that has
\* closed its stream: no partial line, no interleaved line, no lost entry.
C7_WholeLines ==
    /\ EndsWhole(feedback_log)
    /\ \A i \in DOMAIN LinesOf(feedback_log, << >>) :
         LinesOf(feedback_log, << >>)[i] \in ConcLines
    /\ Len(LinesOf(feedback_log, << >>))
         = FEEDBACK_COUNT + Cardinality(ClosedUncounted)

\* two calls had the log open at once: the second line was written by a
\* call that opened the file while it was still empty
C7_Witness ==
    \E w \in DOMAIN workers :
        /\ workers[w].pc = "count"
        /\ workers[w].pos = 0
        /\ LinesOf(feedback_log, << >>)
             = << << "l", "a", "t", "e" >>, << "o", "k" >> >>
        /\ workers[w].req.feedback = PyStr(<< " ", "o", "k", " " >>)

\* the request makes its handler raise inside the try block
RaisesInside(r) ==
    \/ r.op = "predict" /\ NameInCatalog(r.university) /\ ~NumericScores(r)
    \/ r.op = "search" /\ IsNum(r.interest_text) /\ NumOf(r.interest_text) # 0

\* C8: a failure inside a request is returned as an error result of that
\* request, and leaves the catalog, the difficulty model and the similarity
\* index as they were.
C8_FailureIsLocal ==
    [][ (result = NoResult /\ result' # NoResult) =>
          /\ RaisesInside(req) => result'.status = "Error" /\ result'.raised # ""
          /\ result'.status = "Error" =>
               /\ result'.raised # ""
               /\ df' = df /\ pipeline' = pipeline /\ tfidf' = tfidf
          /\ df' = BuildFrame(Dataset) ]_vars

\* an error result of the second request served
C8_Witness ==
    /\ result.status = "Error"
    /\ result.raised = "TypeError"
    /\ req.gre = PyNone
    /\ RequestsServed = 2

\* the label rule's conditions that a row meets
PointsOf(row) ==
    { c \in { "cgpa", "gre", "toefl", "rating" } :
        \/ c = "cgpa" /\ row.CGPA <= 34
        \/ c = "gre" /\ row.GRE <= 320
        \/ c = "toefl" /\ row.TOEFL <= 100
        \/ c = "rating" /\ row.Rating <= 3 }

\* C9: the label is 0 or 1; it is 1 exactly when at least two of
\* CGPA <= 3.4, GRE <= 320, TOEFL <= 100, rating <= 3 hold; and rows that
\* agree on these four fields get the same label.
C9_Label ==
    fn_out # << >> =>
        /\ fn_out[1] \in { 0, 1 }
        /\ fn_out[1] = 1 <=> Cardinality(PointsOf(fn_in)) >= 2
        /\ \A x \in LabelInputs :
             (x.CGPA = fn_in.CGPA /\ x.GRE = fn_in.GRE /\ x.TOEFL = fn_in.TOEFL
                /\ x.Rating = fn_in.Rating) => AdmissionLabel(x) = fn_out[1]

\* two points, both by equality with the threshold
C9_Witness ==
    /\ fn_out = << 1 >>
    /\ fn_in.CGPA = 34 /\ fn_in.GRE = 320
    /\ fn_in.TOEFL = 101 /\ fn_in.Rating = 4

====
